---- MODULE Spec2Model ----
(***************************************************************************)
(* Model of pyss/testing.py: StateChartTester (the harness that drives a   *)
(* simulator under test and relays start/step/stop to tester simulators)   *)
(* and TesterConfiguration (the builder).  The harness methods are         *)
(* modelled statement by statement: every harness carries a control        *)
(* record (frame) holding the position in the running method and the       *)
(* locals of the methods on the call stack.  The Simulator and Evaluator   *)
(* classes (pyss/simulator.py, pyss/evaluator.py) are collaborators; they  *)
(* are modelled from their documented interface.                           *)
(***************************************************************************)
EXTENDS Integers, Sequences, FiniteSets, TLC

\* ------------------------------------------------------------------ bounds
\* Largest number of add_test calls on the configuration.
MaxTesters == 2
\* Largest length of the scenario handed to build_tester.
MaxEvents == 2
\* Largest number of stop() invocations (direct or through execute_once)
\* after which the caller makes no further call on a harness.
MaxStops == 1

\* ------------------------------------------------------------------ values
\* Python's None, where a name (a string) is expected.
None == "None"
\* Python's None, where an Evaluator instance is expected.
NoEvaluator == 0
\* Python's None, where a MacroStep or a Transition is expected (an optional
\* value is a sequence of length 0 or 1).
NoStep == << >>

Range(s) == {s[n] : n \in 1..Len(s)}

\* The harnesses the caller may build from the one configuration.
Harnesses == {1, 2}

\* max_steps arguments the caller passes to execute().
MaxStepsArgs == {-1, 0, 1, 2}

\* Scenario events the caller uses.
EventNames == {"goto s2"}

\* State and event names a tester's guard may pass to the predicates.
StateNames == {"s1", "s2", "s3"}
QueryNames == StateNames \cup EventNames \cup {"start", "step", "stop"}

\* The statechart under test (tests/yaml/simple.yaml: s1 -goto s2-> s2 -> s3).
SubjectChart == "simple"
\* The tester statecharts the caller adds: one that must see s3 entered before
\* it can end, one that fails on the step that processes goto s2 (and ends
\* normally otherwise), one that fails on start and one that fails on stop.
TesterCharts == {"s3_entered", "s1_stays", "fail_start", "fail_stop"}

Scenarios == UNION {[1..n -> EventNames] : n \in 0..MaxEvents}

\* ------------------------------------------------------------------ state
VARIABLES
  config,     \* the TesterConfiguration: its four fields
  contexts,   \* the heap of Evaluator instances: evaluator id -> its _context dict
  simulator,  \* per harness: self._simulator, the engine under test
  testers,    \* per harness: self._testers, the tester engines, in order
  events,     \* per harness: self._events, the scenario
  frame,      \* per harness: position in the running method and the locals
  log,        \* per harness: the calls the harness has made on its engines
  stops       \* number of stop() invocations so far

vars == <<config, contexts, simulator, testers, events, frame, log, stops>>

\* ------------------------------------------------------- the engine (Simulator)
\* A freshly constructed engine: empty configuration, empty event queue.
Engine(chart, cls, ev) ==
  [statechart |-> chart, class |-> cls, evaluator |-> ev,
   configuration |-> << >>, events |-> << >>]

\* A slot of a harness that holds no engine yet.
NoEngine == Engine(None, None, NoEvaluator)

\* A fresh evaluation context (the statechart's variable x, not yet counted up).
FreshContext == [x |-> 0]

MacroStep(event, transition, entered_states, exited_states) ==
  [event |-> event, transition |-> transition,
   entered_states |-> entered_states, exited_states |-> exited_states]

InitialState(chart) ==
  CASE chart = "simple" -> "s1"
    [] chart = "loop" -> "a"
    [] chart = "s3_entered" -> "waiting"
    [] OTHER -> "watching"

FinalStates == {"s3", "done"}

\* The transitions of the statecharts: source, triggering event (None when
\* eventless), guard, target, action.
Tr(source, event, guard, target, action) ==
  [source |-> source, event |-> event, guard |-> guard,
   target |-> target, action |-> action]

Transitions(chart) ==
  CASE chart = "simple" ->
         {Tr("s1", "goto s2", "True", "s2", "x += 1"),
          Tr("s2", None, "True", "s3", "x += 1")}
    [] chart = "loop" ->
         {Tr("a", None, "True", "b", "pass"),
          Tr("b", None, "True", "a", "pass")}
    [] chart = "pass" ->
         {Tr("watching", "stop", "True", "done", "pass")}
    [] chart = "s3_entered" ->
         {Tr("waiting", "step", "entered('s3')", "seen", "pass"),
          Tr("seen", "stop", "True", "done", "pass")}
    [] chart = "s1_stays" ->
         {Tr("watching", "step", "processed('goto s2') and not active('s1')",
             "watching", "assert False"),
          Tr("watching", "stop", "True", "done", "pass")}
    [] chart = "fail_start" ->
         {Tr("watching", "start", "True", "watching", "assert False"),
          Tr("watching", "stop", "True", "done", "pass")}
    [] chart = "fail_stop" ->
         {Tr("watching", "stop", "True", "watching", "assert False")}
    [] chart = "writes_own" ->
         {Tr("watching", "step", "True", "watching", "x = 7"),
          Tr("watching", "stop", "True", "done", "pass")}
    [] chart = "writes_subject" ->
         {Tr("watching", "step", "True", "watching", "context['x'] = 7"),
          Tr("watching", "stop", "True", "done", "pass")}
    [] OTHER -> {}

\* The six entries of a relayed context are closures; each is modelled by what
\* it captured, and calling it by the expression of its lambda.
entered(c, s) == s \in Range(c.entered)
exited(c, s) == s \in Range(c.exited)
\* active answered from the configuration the step started from: the states
\* the step exited count as active, those it entered do not.
active_pre_step(c, s) ==
  s \in (Range(simulator[c.active].configuration) \ Range(c.entered)) \cup Range(c.exited)
active(c, s) == s \in Range(simulator[c.active].configuration)
processed(c, e) == c.processed = e
consumed(c, e) == c.consumed = e

\* A guard of a transition, evaluated in the engine's evaluation context c.
GuardHolds(guard, c) ==
  CASE guard = "True" -> TRUE
    [] guard = "entered('s3')" -> entered(c, "s3")
    [] guard = "processed('goto s2') and not active('s1')" ->
         processed(c, "goto s2") /\ ~active(c, "s1")
    [] OTHER -> FALSE

\* running: at least one active state is not final.
running(eng) == \E s \in Range(eng.configuration) : s \notin FinalStates

\* The outcome of one call on an engine: the engine afterwards, the step it
\* returns (NoStep for None), whether an AssertionError was raised, and the heap.
Outcome(eng, step, raised, ctxs) ==
  [engine |-> eng, step |-> step, raised |-> raised, contexts |-> ctxs]

\* Firing transition t (triggered by event e, None when eventless).  The action
\* runs in the engine's evaluation context: a plain name is a key of that
\* context, and context[...] goes through the entry the harness wrote there.
Fire(eng, t, e, ctxs) ==
  IF t.action = "assert False"
  THEN Outcome(eng, NoStep, TRUE, ctxs)
  ELSE Outcome([eng EXCEPT !.configuration = <<t.target>>],
               <<MacroStep(e, <<[event |-> t.event]>>, <<t.target>>, <<t.source>>)>>,
               FALSE,
               CASE t.action = "x += 1" ->
                      [ctxs EXCEPT ![eng.evaluator].x = @ + 1]
                 [] t.action = "x = 7" ->
                      [ctxs EXCEPT ![eng.evaluator].x = 7]
                 [] t.action = "context['x'] = 7" ->
                      [ctxs EXCEPT ![ctxs[eng.evaluator].context].x = 7]
                 [] OTHER -> ctxs)

\* Simulator.execute_once: one unit of progress, or None.
execute_once(eng, ctxs) ==
  IF eng.configuration = << >>
  THEN Outcome([eng EXCEPT !.configuration = <<InitialState(eng.statechart)>>],
               <<MacroStep(None, NoStep, <<InitialState(eng.statechart)>>, << >>)>>,
               FALSE, ctxs)
  ELSE LET state == eng.configuration[1]
           c == ctxs[eng.evaluator]
           eventless == {t \in Transitions(eng.statechart) :
                           t.source = state /\ t.event = None /\ GuardHolds(t.guard, c)}
       IN IF eventless # {}
          THEN Fire(eng, CHOOSE t \in eventless : TRUE, None, ctxs)
          ELSE IF eng.events = << >>
          THEN Outcome(eng, NoStep, FALSE, ctxs)
          ELSE LET e == Head(eng.events)
                   popped == [eng EXCEPT !.events = Tail(@)]
                   enabled == {t \in Transitions(eng.statechart) :
                                 t.source = state /\ t.event = e /\ GuardHolds(t.guard, c)}
               IN IF enabled = {}
                  THEN Outcome(popped, <<MacroStep(e, NoStep, << >>, << >>)>>, FALSE, ctxs)
                  ELSE Fire(popped, CHOOSE t \in enabled : TRUE, e, ctxs)

\* Simulator.execute with no bound: execute_once until it returns None.
RECURSIVE execute(_, _)
execute(eng, ctxs) ==
  LET o == execute_once(eng, ctxs)
  IN IF o.raised \/ o.step = NoStep THEN o ELSE execute(o.engine, o.contexts)

\* Simulator.send: append to the event queue.
send(eng, e) == [eng EXCEPT !.events = Append(@, e)]

\* ------------------------------------------------------------ the harness
\* The dict returned by _create_context, each closure by what it captures:
\* entered/exited capture the step, active captures self (the harness, whose
\* simulator it reads when called), context is the subject's context dict itself.
Context(en, ex, h, pr, co, ev) ==
  [entered |-> en, exited |-> ex, active |-> h,
   processed |-> pr, consumed |-> co, context |-> ev]

NoContext == Context(<< >>, << >>, 0, None, None, NoEvaluator)

\* _create_context with processed_event_name read from the consumed event
\* (step.event.name) instead of the fired transition's event.
create_context_consumed(h, sim, step) ==
  LET consumed_event_name ==
        IF step # NoStep THEN step[1].event ELSE None
  IN Context(IF step # NoStep THEN step[1].entered_states ELSE << >>,
             IF step # NoStep THEN step[1].exited_states ELSE << >>,
             h, consumed_event_name, consumed_event_name,
             sim.evaluator)

\* StateChartTester._create_context(step), for harness h whose simulator is sim
create_context(h, sim, step) ==
  LET processed_event_name ==
        IF step # NoStep /\ step[1].transition # NoStep
        THEN step[1].transition[1].event ELSE None
      consumed_event_name ==
        IF step # NoStep THEN step[1].event ELSE None
  IN Context(IF step # NoStep THEN step[1].entered_states ELSE << >>,
             IF step # NoStep THEN step[1].exited_states ELSE << >>,
             h, processed_event_name, consumed_event_name,
             sim.evaluator)

\* for key, value in context.items(): tester.evaluator._context[key] = value
Overlay(d, c) ==
  [key \in DOMAIN d \cup DOMAIN c |-> IF key \in DOMAIN c THEN c[key] ELSE d[key]]

\* The AssertionError that reaches the caller: the fields of the message.
Error(sim, tester, args, tconf, conf, step) ==
  [simulator |-> sim, tester |-> tester, args |-> args,
   tester_configuration |-> tconf, configuration |-> conf, step |-> step]

NoError == Error(None, None, None, << >>, << >>, NoStep)

Result(status, value, error) == [status |-> status, value |-> value, error |-> error]

\* The control record of a harness: pc is the position in the running method;
\* method and max_steps are the caller's current (or last) call; mark is the
\* length of the log when that call began; ti, k, j, i,
\* step, steps, event and context are the locals of the methods on the stack;
\* ret_* are the return addresses; result is what the last call gave the caller.
NoFrame ==
  [pc |-> "unbuilt", method |-> None, max_steps |-> 0,
   mark |-> 0, ti |-> 0, k |-> 0, j |-> 0, i |-> 0,
   step |-> NoStep, steps |-> << >>, event |-> None, context |-> NoContext,
   ret_et |-> None, ret_stop |-> None, ret_eo |-> None,
   result |-> Result("none", << >>, NoError)]

\* A method has ended: its locals and those of the methods it called are gone.
Unwind(f, pc, result) ==
  [NoFrame EXCEPT !.pc = pc, !.method = f.method, !.max_steps = f.max_steps,
                  !.mark = f.mark, !.result = result]

\* The caller calls method (with max_steps, for execute) on a harness at rest.
Call(method, max_steps, pc, mark) ==
  [NoFrame EXCEPT !.pc = pc, !.method = method, !.max_steps = max_steps,
                  !.mark = mark]

\* An entry of the log: the operation, the tester (or event) index, the event
\* name, and the step argument of the relay it belongs to.
L(op, t, ev, step) == [op |-> op, t |-> t, ev |-> ev, step |-> step]

\* No harness is inside a method: Python runs one call at a time.
Quiet == \A g \in Harnesses : frame[g].pc \in {"unbuilt", "idle", "failed"}

\* The method returns value to the caller.
Return(f, value) == Unwind(f, "idle", Result("return", value, NoError))

\* The AssertionError leaves every method on the stack; a constructor that
\* raises leaves no harness behind.
Raise(f, error) ==
  Unwind(f, IF f.method = "build_tester" THEN "failed" ELSE "idle",
         Result("raise", << >>, error))

\* Leaving stop(): back in execute_once, or back to the caller.
LeaveStop(f) ==
  IF f.ret_stop = "return" THEN Return(f, << >>) ELSE [f EXCEPT !.pc = f.ret_stop]

\* Entering _execute_tester(step, event, context) over n testers, to come back at ret.
EnterRelay(f, n, ret) ==
  IF n >= 1 THEN [f EXCEPT !.pc = "et_send", !.ti = 1, !.ret_et = ret]
  ELSE [f EXCEPT !.pc = ret]

\* The for loop of _execute_tester moves to the next tester, or the call returns.
NextTester(f, n) ==
  IF f.ti + 1 <= n THEN [f EXCEPT !.pc = "et_send", !.ti = f.ti + 1]
  ELSE [f EXCEPT !.pc = f.ret_et, !.ti = f.ti + 1]

\* ---------------------------------------------------- TesterConfiguration
\* TesterConfiguration.__init__(statechart, evaluator, simulator_class)
TesterConfiguration(statechart, evaluator, simulator_class) ==
  [statechart |-> statechart, evaluator |-> evaluator,
   simulator_class |-> simulator_class, statechart_tests |-> << >>]

\* The engine built from a descriptor, and the heap after it: the Simulator makes
\* an evaluator of its own when it is given none.
RECURSIVE BuildEngines(_, _)
BuildEngines(descs, ctxs) ==
  IF descs = << >> THEN [engines |-> << >>, contexts |-> ctxs]
  ELSE LET d == Head(descs)
           fresh == d[2] = NoEvaluator
           ctxs1 == IF fresh THEN Append(ctxs, FreshContext) ELSE ctxs
           ev == IF fresh THEN Len(ctxs1) ELSE d[2]
           cls == IF d[3] # None THEN d[3] ELSE "Simulator"
           rest == BuildEngines(Tail(descs), ctxs1)
       IN [engines |-> <<Engine(d[1], cls, ev)>> \o rest.engines,
           contexts |-> rest.contexts]

\* add_test(statechart, evaluator, simulator_class); a given evaluator is a new
\* Evaluator instance of the caller's.
add_test(statechart, given, simulator_class) ==
  /\ Quiet
  /\ \A g \in Harnesses : frame[g].pc = "unbuilt"
  /\ Len(config.statechart_tests) < MaxTesters
  /\ LET ev == IF given THEN Len(contexts) + 1 ELSE NoEvaluator
     IN /\ contexts' = IF given THEN Append(contexts, FreshContext) ELSE contexts
        /\ config' = [config EXCEPT !.statechart_tests =
                        Append(@, <<statechart, ev, simulator_class>>)]
  /\ UNCHANGED <<simulator, testers, events, frame, log, stops>>

\* build_tester with a constructor that leaves out the start relay (lines
\* 23-25) and goes straight to sending the scenario.
build_tester_no_start(h, scenario) ==
  /\ Quiet
  /\ frame[h].pc = "unbuilt"
  /\ \A g \in Harnesses : g < h => frame[g].pc # "unbuilt"
  /\ LET built == BuildEngines(
                    <<<<config.statechart, config.evaluator, config.simulator_class>>>>
                      \o config.statechart_tests, contexts)
     IN /\ contexts' = built.contexts
        /\ simulator' = [simulator EXCEPT ![h] = built.engines[1]]
        /\ testers' = [testers EXCEPT ![h] = Tail(built.engines)]
        /\ events' = [events EXCEPT ![h] = scenario]
        /\ frame' = [frame EXCEPT ![h] =
                       [NoFrame EXCEPT !.method = "build_tester", !.j = 1,
                                       !.pc = "init_for"]]
        /\ log' = log
  /\ UNCHANGED <<config, stops>>

\* build_tester with a constructor that sends the scenario to the simulator
\* (lines 28-29) before the start relay (lines 23-25).
build_tester_send_first(h, scenario) ==
  /\ Quiet
  /\ frame[h].pc = "unbuilt"
  /\ \A g \in Harnesses : g < h => frame[g].pc # "unbuilt"
  /\ LET built == BuildEngines(
                    <<<<config.statechart, config.evaluator, config.simulator_class>>>>
                      \o config.statechart_tests, contexts)
         sim == [built.engines[1] EXCEPT !.events = scenario]
         f == [NoFrame EXCEPT !.method = "build_tester", !.event = "start",
                              !.context = create_context(h, sim, NoStep),
                              !.j = Len(scenario) + 1]
     IN /\ contexts' = built.contexts
        /\ simulator' = [simulator EXCEPT ![h] = sim]
        /\ testers' = [testers EXCEPT ![h] = Tail(built.engines)]
        /\ events' = [events EXCEPT ![h] = scenario]
        /\ frame' = [frame EXCEPT ![h] =
                       EnterRelay(f, Len(built.engines) - 1, "init_for")]
        /\ log' = [log EXCEPT ![h] =
                     [j \in 1..Len(scenario) |-> L("sim.send", j, scenario[j], NoStep)]]
  /\ UNCHANGED <<config, stops>>

\* build_tester(events), up to the start relay of StateChartTester.__init__.
build_tester(h, scenario) ==
  /\ Quiet
  /\ frame[h].pc = "unbuilt"
  /\ \A g \in Harnesses : g < h => frame[g].pc # "unbuilt"
  /\ LET built == BuildEngines(
                    <<<<config.statechart, config.evaluator, config.simulator_class>>>>
                      \o config.statechart_tests, contexts)
         sim == built.engines[1]
         f == [NoFrame EXCEPT !.method = "build_tester", !.event = "start",
                              !.context = create_context(h, sim, NoStep),
                              !.j = 1]
     IN /\ contexts' = built.contexts
        /\ simulator' = [simulator EXCEPT ![h] = sim]
        /\ testers' = [testers EXCEPT ![h] = Tail(built.engines)]
        /\ events' = [events EXCEPT ![h] = scenario]
        /\ frame' = [frame EXCEPT ![h] =
                       EnterRelay(f, Len(built.engines) - 1, "init_for")]
        /\ log' = log
  /\ UNCHANGED <<config, stops>>

\* ---------------------------------------------------- reading the log
\* The entries of harness h's log with operation op.
Entries(h, op) == SelectSeq(log[h], LAMBDA e : e.op = op)

\* The synthetic events sent to tester t of harness h, in order.
Sent(h, t) ==
  LET sends == SelectSeq(log[h], LAMBDA e : e.op = "send" /\ e.t = t)
  IN [n \in 1..Len(sends) |-> sends[n].ev]

\* The steps the subject of harness h has executed, in order.
Executed(h) ==
  LET steps == SelectSeq(log[h], LAMBDA e : e.op = "sim.execute_once" /\ e.ev = "step")
  IN [n \in 1..Len(steps) |-> steps[n].step[1]]

\* The number of times the subject of harness h has reported no step.
Exhausted(h) ==
  Len(SelectSeq(log[h], LAMBDA e : e.op = "sim.execute_once" /\ e.ev = None))

\* No tester has raised and no finality assertion has failed.
NoFailure(h) ==
  \A n \in 1..Len(log[h]) :
    /\ log[h][n].op # "raise"
    /\ ~(log[h][n].op = "assert" /\ log[h][n].ev = "running")

\* The log from the last entry with operation op onwards (empty when none).
RECURSIVE FromLast(_, _)
FromLast(s, op) ==
  IF s = << >> THEN << >>
  ELSE IF s[Len(s)].op = op THEN <<s[Len(s)]>>
  ELSE LET r == FromLast(SubSeq(s, 1, Len(s) - 1), op)
       IN IF r = << >> THEN << >> ELSE Append(r, s[Len(s)])

\* The log only grows, one entry per call on an engine: what holds of the
\* newest entry in every reachable state holds of every entry of every log.
\* Newest(h, b) is the entry b places before the end (b = 0: the newest).
HasEntry(h, b) == Len(log[h]) > b
Newest(h, b) == log[h][Len(log[h]) - b]

\* The part of the log written since the caller's current call began.
Since(h) == SubSeq(log[h], frame[h].mark + 1, Len(log[h]))

\* The caller's call on harness h has returned normally.
Returned(h, methods) ==
  /\ frame[h].pc = "idle"
  /\ frame[h].method \in methods
  /\ frame[h].result.status = "return"

\* ------------------------------------------------------- _execute_tester
\* line 64: tester.send(event)
et_send(h) ==
  /\ frame[h].pc = "et_send"
  /\ LET f == frame[h]
     IN /\ testers' = [testers EXCEPT ![h][f.ti] = send(@, f.event)]
        /\ frame' = [frame EXCEPT ![h].pc = "et_overlay"]
        /\ log' = [log EXCEPT ![h] = Append(@, L("send", f.ti, f.event, f.step))]
  /\ UNCHANGED <<config, contexts, simulator, events, stops>>

\* et_overlay writing the context into the evaluator of every tester at
\* once, as if the testers shared one context dict.
et_overlay_all(h) ==
  /\ frame[h].pc = "et_overlay"
  /\ LET f == frame[h]
         evs == {testers[h][t].evaluator : t \in 1..Len(testers[h])}
     IN /\ contexts' = [e \in DOMAIN contexts |->
                          IF e \in evs THEN Overlay(contexts[e], f.context)
                          ELSE contexts[e]]
        /\ frame' = [frame EXCEPT ![h].pc = "et_execute"]
        /\ log' = [log EXCEPT ![h] = Append(@, L("overlay", f.ti, f.event, f.step))]
  /\ UNCHANGED <<config, simulator, testers, events, stops>>

\* lines 65-66: the context is written into the tester's evaluator
et_overlay(h) ==
  /\ frame[h].pc = "et_overlay"
  /\ LET f == frame[h]
         ev == testers[h][f.ti].evaluator
     IN /\ contexts' = [contexts EXCEPT ![ev] = Overlay(@, f.context)]
        /\ frame' = [frame EXCEPT ![h].pc = "et_execute"]
        /\ log' = [log EXCEPT ![h] = Append(@, L("overlay", f.ti, f.event, f.step))]
  /\ UNCHANGED <<config, simulator, testers, events, stops>>

\* et_execute with the AssertionError swallowed: the raise of line 78 left out,
\* so the loop goes on to the next tester.
et_execute_swallow(h) ==
  /\ frame[h].pc = "et_execute"
  /\ LET f == frame[h]
         o == execute(testers[h][f.ti], contexts)
     IN /\ testers' = [testers EXCEPT ![h][f.ti] = o.engine]
        /\ contexts' = o.contexts
        /\ frame' = [frame EXCEPT ![h] = NextTester(f, Len(testers[h]))]
        /\ log' = [log EXCEPT ![h] =
                     Append(@, L(IF o.raised THEN "raise" ELSE "execute",
                                 f.ti, f.event, f.step))]
  /\ UNCHANGED <<config, simulator, events, stops>>

\* et_execute undoing the failed tester's reaction: on an AssertionError the
\* tester is put back as it was before execute(), the event still queued.
et_execute_rollback(h) ==
  /\ frame[h].pc = "et_execute"
  /\ LET f == frame[h]
         o == execute(testers[h][f.ti], contexts)
     IN /\ contexts' = o.contexts
        /\ IF o.raised
           THEN /\ testers' = testers
                /\ frame' = [frame EXCEPT ![h] =
                               Raise(f, Error(simulator[h].statechart,
                                              o.engine.statechart,
                                              "assert False",
                                              o.engine.configuration,
                                              simulator[h].configuration,
                                              f.step))]
                /\ log' = [log EXCEPT ![h] = Append(@, L("raise", f.ti, f.event, f.step))]
           ELSE /\ testers' = [testers EXCEPT ![h][f.ti] = o.engine]
                /\ frame' = [frame EXCEPT ![h] = NextTester(f, Len(testers[h]))]
                /\ log' = [log EXCEPT ![h] = Append(@, L("execute", f.ti, f.event, f.step))]
  /\ UNCHANGED <<config, simulator, events, stops>>

\* et_execute raising the tester's AssertionError as it came, without the
\* message of lines 70-76.
et_execute_bare(h) ==
  /\ frame[h].pc = "et_execute"
  /\ LET f == frame[h]
         o == execute(testers[h][f.ti], contexts)
     IN /\ testers' = [testers EXCEPT ![h][f.ti] = o.engine]
        /\ contexts' = o.contexts
        /\ IF o.raised
           THEN /\ frame' = [frame EXCEPT ![h] =
                               Raise(f, Error(None, None, "assert False",
                                              << >>, << >>, NoStep))]
                /\ log' = [log EXCEPT ![h] = Append(@, L("raise", f.ti, f.event, f.step))]
           ELSE /\ frame' = [frame EXCEPT ![h] = NextTester(f, Len(testers[h]))]
                /\ log' = [log EXCEPT ![h] = Append(@, L("execute", f.ti, f.event, f.step))]
  /\ UNCHANGED <<config, simulator, events, stops>>

\* lines 67-78: tester.execute(); an AssertionError is enriched and raised again
et_execute(h) ==
  /\ frame[h].pc = "et_execute"
  /\ LET f == frame[h]
         o == execute(testers[h][f.ti], contexts)
     IN /\ testers' = [testers EXCEPT ![h][f.ti] = o.engine]
        /\ contexts' = o.contexts
        /\ IF o.raised
           THEN /\ frame' = [frame EXCEPT ![h] =
                               Raise(f, Error(simulator[h].statechart,
                                              o.engine.statechart,
                                              "assert False",
                                              o.engine.configuration,
                                              simulator[h].configuration,
                                              f.step))]
                /\ log' = [log EXCEPT ![h] = Append(@, L("raise", f.ti, f.event, f.step))]
           ELSE /\ frame' = [frame EXCEPT ![h] = NextTester(f, Len(testers[h]))]
                /\ log' = [log EXCEPT ![h] = Append(@, L("execute", f.ti, f.event, f.step))]
  /\ UNCHANGED <<config, simulator, events, stops>>

\* ------------------------------------------------- StateChartTester.__init__
\* lines 28-29: the next scenario event is sent to the simulator
init_send(h) ==
  /\ frame[h].pc = "init_for"
  /\ frame[h].j <= Len(events[h])
  /\ LET f == frame[h]
     IN /\ simulator' = [simulator EXCEPT ![h] = send(@, events[h][f.j])]
        /\ frame' = [frame EXCEPT ![h].j = f.j + 1]
        /\ log' = [log EXCEPT ![h] = Append(@, L("sim.send", f.j, events[h][f.j], NoStep))]
  /\ UNCHANGED <<config, contexts, testers, events, stops>>

\* the constructor returns, and build_tester returns the harness (line 188)
init_return(h) ==
  /\ frame[h].pc = "init_for"
  /\ frame[h].j > Len(events[h])
  /\ frame' = [frame EXCEPT ![h] = Return(@, << >>)]
  /\ UNCHANGED <<config, contexts, simulator, testers, events, log, stops>>

\* ------------------------------------------------------------ the caller
CanCall(h) == Quiet /\ frame[h].pc = "idle" /\ stops < MaxStops

call_execute_once(h) ==
  /\ CanCall(h)
  /\ frame' = [frame EXCEPT ![h] =
                 [Call("execute_once", 0, "eo_simulate", Len(log[h]))
                    EXCEPT !.ret_eo = "return"]]
  /\ UNCHANGED <<config, contexts, simulator, testers, events, log, stops>>

\* lines 125-127: steps = [], i = 0, and the first execute_once
call_execute(h, max_steps) ==
  /\ CanCall(h)
  /\ frame' = [frame EXCEPT ![h] =
                 [Call("execute", max_steps, "eo_simulate", Len(log[h]))
                    EXCEPT !.steps = << >>, !.i = 0, !.ret_eo = "ex_while"]]
  /\ UNCHANGED <<config, contexts, simulator, testers, events, log, stops>>

call_stop(h) ==
  /\ CanCall(h)
  /\ frame' = [frame EXCEPT ![h] =
                 [Call("stop", 0, "stop_begin", Len(log[h]))
                    EXCEPT !.ret_stop = "return"]]
  /\ UNCHANGED <<config, contexts, simulator, testers, events, log, stops>>

\* ------------------------------------------------------------ execute_once
\* eo_simulate that returns None without calling stop() when the simulator
\* has no step (line 111 left out).
eo_simulate_no_stop(h) ==
  /\ frame[h].pc = "eo_simulate"
  /\ LET f == frame[h]
         o == execute_once(simulator[h], contexts)
     IN /\ simulator' = [simulator EXCEPT ![h] = o.engine]
        /\ contexts' = o.contexts
        /\ IF o.step # NoStep
           THEN /\ frame' = [frame EXCEPT ![h] =
                       EnterRelay([f EXCEPT !.step = o.step, !.event = "step",
                                            !.context = create_context(h, o.engine, o.step)],
                                  Len(testers[h]), "eo_return")]
                /\ log' = [log EXCEPT ![h] = Append(@, L("sim.execute_once", 0, "step", o.step))]
           ELSE /\ frame' = [frame EXCEPT ![h] =
                       [f EXCEPT !.step = NoStep, !.pc = "eo_return"]]
                /\ log' = [log EXCEPT ![h] = Append(@, L("sim.execute_once", 0, None, NoStep))]
  /\ UNCHANGED <<config, testers, events, stops>>

\* lines 101-111: the simulator executes once; a step is relayed, None stops
eo_simulate(h) ==
  /\ frame[h].pc = "eo_simulate"
  /\ LET f == frame[h]
         o == execute_once(simulator[h], contexts)
     IN /\ simulator' = [simulator EXCEPT ![h] = o.engine]
        /\ contexts' = o.contexts
        /\ IF o.step # NoStep
           THEN /\ frame' = [frame EXCEPT ![h] =
                       EnterRelay([f EXCEPT !.step = o.step, !.event = "step",
                                            !.context = create_context(h, o.engine, o.step)],
                                  Len(testers[h]), "eo_return")]
                /\ log' = [log EXCEPT ![h] = Append(@, L("sim.execute_once", 0, "step", o.step))]
           ELSE /\ frame' = [frame EXCEPT ![h] =
                       [f EXCEPT !.step = NoStep, !.pc = "stop_begin",
                                 !.ret_stop = "eo_return"]]
                /\ log' = [log EXCEPT ![h] = Append(@, L("sim.execute_once", 0, None, NoStep))]
  /\ UNCHANGED <<config, testers, events, stops>>

\* line 113: return step
eo_return(h) ==
  /\ frame[h].pc = "eo_return"
  /\ LET f == frame[h]
     IN IF f.ret_eo = "return"
        THEN frame' = [frame EXCEPT ![h] = Return(f, f.step)]
        ELSE frame' = [frame EXCEPT ![h].pc = f.ret_eo]
  /\ UNCHANGED <<config, contexts, simulator, testers, events, log, stops>>

\* -------------------------------------------------------------------- stop
\* The call of line 90 for tester k, or the end of the loop of line 89.
StopFor(f, n) ==
  IF f.k <= n
  THEN [f EXCEPT !.pc = "et_send", !.ti = 1, !.ret_et = "stop_assert"]
  ELSE LeaveStop(f)

\* stop_begin with the context of the last relayed step kept for the stop
\* relay instead of a context built without a step (line 87).
stop_begin_stale(h) ==
  /\ frame[h].pc = "stop_begin"
  /\ LET last == IF Executed(h) = << >> THEN NoStep
                 ELSE <<Executed(h)[Len(Executed(h))]>>
         f == [frame[h] EXCEPT !.event = "stop", !.step = NoStep, !.k = 1,
                               !.context = create_context(h, simulator[h], last)]
     IN frame' = [frame EXCEPT ![h] = StopFor(f, Len(testers[h]))]
  /\ log' = [log EXCEPT ![h] = Append(@, L("stop", 0, "stop", NoStep))]
  /\ stops' = stops + 1
  /\ UNCHANGED <<config, contexts, simulator, testers, events>>

\* lines 86-90: the stop event, its context, and the first pass of the loop
stop_begin(h) ==
  /\ frame[h].pc = "stop_begin"
  /\ LET f == [frame[h] EXCEPT !.event = "stop", !.step = NoStep, !.k = 1,
                               !.context = create_context(h, simulator[h], NoStep)]
     IN frame' = [frame EXCEPT ![h] = StopFor(f, Len(testers[h]))]
  /\ log' = [log EXCEPT ![h] = Append(@, L("stop", 0, "stop", NoStep))]
  /\ stops' = stops + 1
  /\ UNCHANGED <<config, contexts, simulator, testers, events>>

\* stop_assert without its assertion: the check of line 91 left out.
stop_assert_unchecked(h) ==
  /\ frame[h].pc = "stop_assert"
  /\ LET f == frame[h]
     IN /\ frame' = [frame EXCEPT ![h] =
                       StopFor([f EXCEPT !.k = f.k + 1], Len(testers[h]))]
        /\ log' = [log EXCEPT ![h] = Append(@, L("assert", f.k, "final", NoStep))]
  /\ UNCHANGED <<config, contexts, simulator, testers, events, stops>>

\* stop_assert that notes a running tester and goes on with the next tester
\* instead of raising.
stop_assert_continue(h) ==
  /\ frame[h].pc = "stop_assert"
  /\ LET f == frame[h]
         tester == testers[h][f.k]
     IN /\ frame' = [frame EXCEPT ![h] =
                       StopFor([f EXCEPT !.k = f.k + 1], Len(testers[h]))]
        /\ log' = [log EXCEPT ![h] =
                     Append(@, L("assert", f.k,
                                 IF running(tester) THEN "running" ELSE "final",
                                 NoStep))]
  /\ UNCHANGED <<config, contexts, simulator, testers, events, stops>>

\* line 91: assert not tester.running, then the next pass of the loop
stop_assert(h) ==
  /\ frame[h].pc = "stop_assert"
  /\ LET f == frame[h]
         tester == testers[h][f.k]
     IN IF running(tester)
        THEN /\ frame' = [frame EXCEPT ![h] =
                            Raise(f, Error(None, tester.statechart,
                                           "is not in a final configuration!",
                                           tester.configuration, << >>, NoStep))]
             /\ log' = [log EXCEPT ![h] = Append(@, L("assert", f.k, "running", NoStep))]
        ELSE /\ frame' = [frame EXCEPT ![h] =
                            StopFor([f EXCEPT !.k = f.k + 1], Len(testers[h]))]
             /\ log' = [log EXCEPT ![h] = Append(@, L("assert", f.k, "final", NoStep))]
  /\ UNCHANGED <<config, contexts, simulator, testers, events, stops>>

\* ----------------------------------------------------------------- execute
\* ex_while with the bound tested one step late (i > max_steps at line 131).
ex_while_late(h) ==
  /\ frame[h].pc = "ex_while"
  /\ LET f == frame[h]
         steps == Append(f.steps, f.step[1])
         i == f.i + 1
     IN IF f.step = NoStep
        THEN frame' = [frame EXCEPT ![h] = Return(f, f.steps)]
        ELSE IF f.max_steps > 0 /\ i > f.max_steps
        THEN frame' = [frame EXCEPT ![h] = Return(f, steps)]
        ELSE frame' = [frame EXCEPT ![h] =
                         [f EXCEPT !.steps = steps, !.i = i, !.pc = "eo_simulate"]]
  /\ UNCHANGED <<config, contexts, simulator, testers, events, log, stops>>

\* ex_while without the test of line 131: the loop ends only when
\* execute_once returns None.
ex_while_no_bound(h) ==
  /\ frame[h].pc = "ex_while"
  /\ LET f == frame[h]
         steps == Append(f.steps, f.step[1])
         i == f.i + 1
     IN IF f.step = NoStep
        THEN frame' = [frame EXCEPT ![h] = Return(f, f.steps)]
        ELSE frame' = [frame EXCEPT ![h] =
                         [f EXCEPT !.steps = steps, !.i = i, !.pc = "eo_simulate"]]
  /\ UNCHANGED <<config, contexts, simulator, testers, events, log, stops>>

\* ex_while with the bound tested as `i >= max_steps` alone, without
\* `max_steps > 0`.
ex_while_any_bound(h) ==
  /\ frame[h].pc = "ex_while"
  /\ LET f == frame[h]
         steps == Append(f.steps, f.step[1])
         i == f.i + 1
     IN IF f.step = NoStep
        THEN frame' = [frame EXCEPT ![h] = Return(f, f.steps)]
        ELSE IF i >= f.max_steps
        THEN frame' = [frame EXCEPT ![h] = Return(f, steps)]
        ELSE frame' = [frame EXCEPT ![h] =
                         [f EXCEPT !.steps = steps, !.i = i, !.pc = "eo_simulate"]]
  /\ UNCHANGED <<config, contexts, simulator, testers, events, log, stops>>

\* ex_while with the bound tested after the next execute_once instead of
\* before it (lines 131-132 moved below line 133).
ex_while_ask_first(h) ==
  /\ frame[h].pc = "ex_while"
  /\ LET f == frame[h]
         steps == Append(f.steps, f.step[1])
         i == f.i + 1
     IN IF f.step = NoStep
        THEN frame' = [frame EXCEPT ![h] = Return(f, f.steps)]
        ELSE IF f.max_steps > 0 /\ f.i = f.max_steps
        THEN frame' = [frame EXCEPT ![h] = Return(f, f.steps)]
        ELSE frame' = [frame EXCEPT ![h] =
                         [f EXCEPT !.steps = steps, !.i = i, !.pc = "eo_simulate"]]
  /\ UNCHANGED <<config, contexts, simulator, testers, events, log, stops>>

\* lines 128-134: the while loop, entered after each execute_once
ex_while(h) ==
  /\ frame[h].pc = "ex_while"
  /\ LET f == frame[h]
         steps == Append(f.steps, f.step[1])
         i == f.i + 1
     IN IF f.step = NoStep
        THEN frame' = [frame EXCEPT ![h] = Return(f, f.steps)]
        ELSE IF f.max_steps > 0 /\ i = f.max_steps
        THEN frame' = [frame EXCEPT ![h] = Return(f, steps)]
        ELSE frame' = [frame EXCEPT ![h] =
                         [f EXCEPT !.steps = steps, !.i = i, !.pc = "eo_simulate"]]
  /\ UNCHANGED <<config, contexts, simulator, testers, events, log, stops>>

\* ------------------------------------------------------- specifications
\* One configuration with default evaluators and simulator class, one harness.
Init ==
  /\ config = TesterConfiguration(SubjectChart, NoEvaluator, None)
  /\ contexts = << >>
  /\ simulator = [h \in Harnesses |-> NoEngine]
  /\ testers = [h \in Harnesses |-> << >>]
  /\ events = [h \in Harnesses |-> << >>]
  /\ frame = [h \in Harnesses |-> NoFrame]
  /\ log = [h \in Harnesses |-> << >>]
  /\ stops = 0

\* The steps of a harness whose caller uses execute_once() and stop() only.
StepOnce(h) ==
  \/ et_send(h)
  \/ et_overlay(h)
  \/ et_execute(h)
  \/ init_send(h)
  \/ init_return(h)
  \/ call_execute_once(h)
  \/ call_stop(h)
  \/ eo_simulate(h)
  \/ eo_return(h)
  \/ stop_begin(h)
  \/ stop_assert(h)

Step(h) ==
  \/ StepOnce(h)
  \/ \E m \in MaxStepsArgs : call_execute(h, m)
  \/ ex_while(h)

Next ==
  \/ \E c \in TesterCharts : add_test(c, FALSE, None)
  \/ \E sc \in Scenarios : build_tester(1, sc)
  \/ Step(1)

Spec == Init /\ [][Next]_vars

\* The same configuration built into two harnesses; the caller may hand
\* TesterConfiguration and add_test an Evaluator instance and a simulator class
\* of its own, and drives the harnesses with execute_once() and stop().
SimulatorClasses == {None, "CustomSimulator"}
ReuseCharts == {"pass"}
\* Largest number of add_test calls on a configuration that is built twice.
MaxReuseTesters == 1

InitReuse ==
  /\ \E given \in BOOLEAN, cls \in SimulatorClasses :
       /\ config = TesterConfiguration(SubjectChart, IF given THEN 1 ELSE NoEvaluator, cls)
       /\ contexts = IF given THEN <<FreshContext>> ELSE << >>
  /\ simulator = [h \in Harnesses |-> NoEngine]
  /\ testers = [h \in Harnesses |-> << >>]
  /\ events = [h \in Harnesses |-> << >>]
  /\ frame = [h \in Harnesses |-> NoFrame]
  /\ log = [h \in Harnesses |-> << >>]
  /\ stops = 0

NextReuse ==
  \/ \E c \in ReuseCharts, given \in BOOLEAN, cls \in SimulatorClasses :
       Len(config.statechart_tests) < MaxReuseTesters /\ add_test(c, given, cls)
  \/ \E h \in Harnesses, sc \in Scenarios : build_tester(h, sc)
  \/ \E h \in Harnesses : StepOnce(h)

SpecReuse == InitReuse /\ [][NextReuse]_vars

\* ------------------------------------------------------------------ C1
\* C1: when the harness has been driven with execute()/execute_once() until the
\* subject reported no step, and no assertion failure was raised, every tester
\* has been sent exactly start, then one step per executed subject step, then
\* one stop.
C1_LifecycleFraming ==
  ( /\ Returned(1, {"execute", "execute_once"})
    /\ Exhausted(1) = 1
    /\ Len(Entries(1, "stop")) = 1
    /\ NoFailure(1) )
  => \A t \in 1..Len(testers[1]) :
       Sent(1, t) = <<"start">> \o [n \in 1..Len(Executed(1)) |-> "step"] \o <<"stop">>

\* ------------------------------------------------------------------ C2
\* The relays and checks one stop() call is meant to make over n testers: for
\* each tester in turn, one stop sent, overlaid and executed, then its check.
IntendedStop(n) ==
  [m \in 1..(4 * n) |->
     LET t == ((m - 1) \div 4) + 1
         r == (m - 1) % 4
     IN IF r = 0 THEN L("send", t, "stop", NoStep)
        ELSE IF r = 1 THEN L("overlay", t, "stop", NoStep)
        ELSE IF r = 2 THEN L("execute", t, "stop", NoStep)
        ELSE L("assert", t, "final", NoStep)]

\* C2: a stop() call that ran to its end has made, for each tester, exactly one
\* relay of stop followed immediately by exactly one finality check of it.
C2_OneStopRelayPerTester ==
  LET n == Len(testers[1])
      last == log[1][Len(log[1])]
  IN ( /\ log[1] # << >>
       /\ last.op = "assert" /\ last.ev = "final" /\ last.t = n )
     => Tail(FromLast(log[1], "stop")) = IntendedStop(n)

\* ------------------------------------------------------------------ C3
\* C3: when the subject reports no step, execute_once calls stop(); a tester
\* that is still running when stop() checks it makes the call raise an
\* assertion failure naming that tester's statechart and configuration; and a
\* call that found the subject exhausted returns normally only with every
\* tester not running.
C3_Finality ==
  LET f == frame[1]
      lg == log[1]
      n == Len(testers[1])
  IN /\ (HasEntry(1, 0) /\ Newest(1, 0) = L("sim.execute_once", 0, None, NoStep))
        => f.pc = "stop_begin"
     /\ (HasEntry(1, 1) /\ Newest(1, 1) = L("sim.execute_once", 0, None, NoStep))
        => Newest(1, 0).op = "stop"
     /\ ( /\ Returned(1, {"execute_once", "execute"})
          /\ \E m \in (f.mark + 1)..Len(lg) :
               lg[m].op = "sim.execute_once" /\ lg[m].ev = None )
        => \A t \in 1..n : ~running(testers[1][t])
     /\ \A k \in 1..n :
          ( /\ f.mark < Len(lg)
            /\ Newest(1, 0).op = "assert" /\ Newest(1, 0).t = k )
          => IF running(testers[1][k])
             THEN /\ Newest(1, 0).ev = "running"
                  /\ f.pc = "idle"
                  /\ f.result.status = "raise"
                  /\ f.result.error.tester = testers[1][k].statechart
                  /\ f.result.error.tester_configuration = testers[1][k].configuration
             ELSE Newest(1, 0).ev = "final"

\* A call found the subject exhausted and raised the finality failure of a
\* tester that never reached its final state.
C3_Witness ==
  /\ frame[1].pc = "idle"
  /\ frame[1].method = "execute"
  /\ frame[1].result.status = "raise"
  /\ frame[1].result.error.tester = "s3_entered"
  /\ frame[1].result.error.tester_configuration = <<"waiting">>
  /\ Exhausted(1) = 1

\* ------------------------------------------------------------------ C4
\* C4: when tester k raises while reacting to a relayed event, that relay call
\* has served testers 1..k only (send, overlay, execute each, in order), no
\* later tester is sent the event, overlaid or executed in that call, and the
\* failure reaches the caller.
C4_FailFastRelay ==
  LET f == frame[1]
      lg == log[1]
      m == Len(lg)
  IN /\ (HasEntry(1, 0) /\ lg[m].op = "raise")
        => LET k == lg[m].t
           IN /\ m >= 3 * k
              /\ \A t \in 1..k :
                   LET b == m - 3 * (k - t)
                   IN /\ lg[b - 2] = L("send", t, lg[m].ev, lg[m].step)
                      /\ lg[b - 1] = L("overlay", t, lg[m].ev, lg[m].step)
                      /\ lg[b].t = t /\ lg[b].ev = lg[m].ev
                      /\ lg[b].op = IF t = k THEN "raise" ELSE "execute"
              /\ f.pc \in {"idle", "failed", "eo_simulate", "stop_begin"}
              /\ f.mark < m =>
                   /\ f.pc \in {"idle", "failed"}
                   /\ f.result.status = "raise"
                   /\ f.result.error.tester = testers[1][k].statechart
                   /\ \A t \in (k + 1)..Len(testers[1]) :
                        testers[1][t].events = << >>
     /\ (HasEntry(1, 1) /\ Newest(1, 1).op = "raise")
        => Newest(1, 0).op \in {"sim.execute_once", "stop"}

\* The first of two testers raised on a step event; the second was not served.
C4_Witness ==
  /\ frame[1].pc = "idle"
  /\ frame[1].result.status = "raise"
  /\ Len(testers[1]) = 2
  /\ log[1] # << >>
  /\ log[1][Len(log[1])].op = "raise"
  /\ log[1][Len(log[1])].t = 1
  /\ log[1][Len(log[1])].ev = "step"
  /\ Len(Sent(1, 2)) < Len(Sent(1, 1))

\* ------------------------------------------------------------------ C5
\* The last overlay entry of the log for tester t (callers make sure there is
\* one); OverlayBefore is its index, searched from entry m downwards, 0 if none.
RECURSIVE OverlayBefore(_, _, _)
OverlayBefore(h, t, m) ==
  IF m = 0 THEN 0
  ELSE IF log[h][m].op = "overlay" /\ log[h][m].t = t THEN m
  ELSE OverlayBefore(h, t, m - 1)

LastOverlay(h, t) == log[h][OverlayBefore(h, t, Len(log[h]))]

Overlaid(h, t) == OverlayBefore(h, t, Len(log[h])) # 0

\* Context c answers the five predicates exactly as the delivery of step does
\* (step is NoStep for a start or stop delivery).
AnswersFor(c, step) ==
  \A x \in QueryNames :
    /\ entered(c, x) <=> (step # NoStep /\ x \in Range(step[1].entered_states))
    /\ exited(c, x) <=> (step # NoStep /\ x \in Range(step[1].exited_states))
    /\ consumed(c, x) <=> (step # NoStep /\ x = step[1].event)
    /\ processed(c, x) <=> ( /\ step # NoStep
                             /\ step[1].transition # NoStep
                             /\ x = step[1].transition[1].event )

\* C5: the context relayed with a step answers entered, exited, consumed and
\* processed from that step alone, and a tester's evaluation context always
\* answers them from the last delivery it was given, retaining nothing of an
\* earlier step.
C5_StepContext ==
  /\ frame[1].pc \in {"et_send", "et_overlay", "et_execute"}
       => AnswersFor(frame[1].context, frame[1].step)
  /\ \A t \in 1..Len(testers[1]) :
       Overlaid(1, t)
       => AnswersFor(contexts[testers[1][t].evaluator], LastOverlay(1, t).step)

\* A tester has been given the step that consumed the second goto s2 without
\* firing a transition, after earlier steps had entered s2 and s3.
C5_Witness ==
  /\ Len(testers[1]) >= 1
  /\ Overlaid(1, 1)
  /\ Len(Executed(1)) = 4
  /\ LastOverlay(1, 1).ev = "step"
  /\ LET c == contexts[testers[1][1].evaluator]
     IN /\ consumed(c, "goto s2")
        /\ ~processed(c, "goto s2")
        /\ ~entered(c, "s3")
        /\ ~exited(c, "s2")

\* ------------------------------------------------------------------ C6
\* Context c, built with no step, answers false to entered, exited, processed
\* and consumed for every name, answers active from the live configuration of
\* the subject of harness h, and its context entry is the subject's own.
StepLess(c, h) ==
  /\ \A x \in QueryNames :
       ~entered(c, x) /\ ~exited(c, x) /\ ~processed(c, x) /\ ~consumed(c, x)
  /\ \A s \in StateNames : active(c, s) <=> s \in Range(simulator[h].configuration)
  /\ c.context = simulator[h].evaluator

RECURSIVE RunSubject(_, _, _)
RunSubject(eng, ctxs, acc) ==
  LET o == execute_once(eng, ctxs)
  IN IF o.step = NoStep THEN acc
     ELSE RunSubject(o.engine, o.contexts, Append(acc, o.step[1]))

SubjectRun(scenario) ==
  RunSubject([Engine(SubjectChart, "Simulator", 1) EXCEPT !.events = scenario],
             <<FreshContext>>, << >>)

\* The number of steps the subject of harness h had executed when the caller's
\* current call began.
StepsBefore(h) ==
  Len(SelectSeq(SubSeq(log[h], 1, frame[h].mark),
                LAMBDA e : e.op = "sim.execute_once" /\ e.ev = "step"))

\* C7: with m steps pending and 0 < k < m, execute(max_steps=k) returns the
\* first k pending steps, relays k step events to every tester and neither
\* relays stop nor checks finality; an unbounded execute() returns all the
\* steps still pending where the earlier calls left off, and has invoked
\* stop() after the last of them.
C7_BoundedExecution ==
  LET f == frame[1]
      all == SubjectRun(events[1])
      n0 == StepsBefore(1)
      k == f.max_steps
  IN /\ (Returned(1, {"execute"}) /\ 0 < k /\ k < Len(all) - n0)
        => /\ f.result.value = SubSeq(all, n0 + 1, n0 + k)
           /\ \A t \in 1..Len(testers[1]) :
                Len(SelectSeq(Since(1), LAMBDA e : e.op = "send" /\ e.t = t /\ e.ev = "step")) = k
           /\ Len(SelectSeq(Since(1), LAMBDA e : e.op \in {"stop", "assert"} \/ e.ev = "stop")) = 0
           /\ Len(SelectSeq(Since(1), LAMBDA e : e.op = "sim.execute_once")) = k
     /\ (Returned(1, {"execute"}) /\ k = -1)
        => /\ f.result.value = SubSeq(all, n0 + 1, Len(all))
           /\ Len(SelectSeq(Since(1), LAMBDA e : e.op = "stop")) = 1
           /\ LET since == Since(1)
                  r == Len(all) - n0
              IN /\ Len(since) >= r + 2
                 /\ \A m \in 1..Len(since) :
                      since[m].op = "stop"
                      => /\ since[m - 1] = L("sim.execute_once", 0, None, NoStep)
                         /\ Len(SelectSeq(SubSeq(since, 1, m),
                               LAMBDA e : e.op = "sim.execute_once" /\ e.ev = "step")) = r

\* An unbounded execute() resumed a run that earlier calls had left two steps
\* in, with steps still pending, returned the remaining steps and stopped.
C7_Witness ==
  /\ Returned(1, {"execute"})
  /\ frame[1].max_steps = -1
  /\ StepsBefore(1) = 2
  /\ Len(SelectSeq(SubSeq(log[1], 1, frame[1].mark), LAMBDA e : e.op = "stop")) = 0
  /\ Len(frame[1].result.value) = 2
  /\ frame[1].result.value = SubSeq(SubjectRun(events[1]), 3, 4)
  /\ Len(testers[1]) = 2
  /\ Len(Entries(1, "stop")) = 1

\* ------------------------------------------------------------------ C8
\* The Evaluator instances the engines of harness g use.
Evaluators(g) ==
  {simulator[g].evaluator} \cup {testers[g][t].evaluator : t \in 1..Len(testers[g])}

\* What can be observed of the engines of harness g: configurations and event
\* queues of its simulator and testers, and their evaluation contexts.
EngineView(g) ==
  <<simulator[g], testers[g], [e \in Evaluators(g) |-> contexts[e]]>>

\* C8: building a harness and running it leave the configuration unchanged,
\* and no step of one harness (its construction included) changes a
\* configuration, event queue or evaluation context of the other harness.
C8_ConfigurationReuse ==
  [][ /\ frame' # frame => config' = config
      /\ \A h \in Harnesses, g \in Harnesses :
           (h # g /\ frame'[h] # frame[h] /\ frame[g].pc # "unbuilt")
           => EngineView(g)' = EngineView(g) ]_vars

\* ------------------------------------------------------------------ C9
\* The number of scenario events sent to the subject in the first m entries.
SendsBefore(h, m) ==
  Len(SelectSeq(SubSeq(log[h], 1, m), LAMBDA e : e.op = "sim.send"))

\* C9: the constructor relays start, with a context built without a step, to
\* every tester before it sends the first scenario event to the subject; the
\* events are sent in scenario order and only queued: the subject takes no
\* step during construction and none before the whole scenario is queued.
C9_ConstructionOrder ==
  LET f == frame[1]
      lg == log[1]
      n == Len(testers[1])
      sc == events[1]
      m == Len(lg)
  IN /\ (HasEntry(1, 0) /\ lg[m].ev = "start")
        => (lg[m].step = NoStep /\ m <= 3 * n)
     /\ (HasEntry(1, 0) /\ lg[m].op = "sim.send")
        => /\ m = 3 * n + lg[m].t
           /\ \A t \in 1..n : lg[3 * t] = L("execute", t, "start", NoStep)
           /\ \A j \in 1..lg[m].t : lg[3 * n + j] = L("sim.send", j, sc[j], NoStep)
     /\ (HasEntry(1, 0) /\ lg[m].op = "sim.execute_once")
        => /\ m > 3 * n + Len(sc)
           /\ \A t \in 1..n : lg[3 * t] = L("execute", t, "start", NoStep)
           /\ \A j \in 1..Len(sc) : lg[3 * n + j] = L("sim.send", j, sc[j], NoStep)
     /\ f.method = "build_tester"
        => /\ simulator[1].configuration = << >>
           /\ simulator[1].events = SubSeq(sc, 1, SendsBefore(1, Len(lg)))
           /\ Entries(1, "sim.execute_once") = << >>
           /\ f.pc \in {"et_send", "et_overlay", "et_execute", "failed"}
                => simulator[1].events = << >>
           /\ f.pc = "idle" => simulator[1].events = sc

\* build_tester has returned a harness with two testers, each sent start only,
\* and a subject that holds the two scenario events and has taken no step.
C9_Witness ==
  /\ Returned(1, {"build_tester"})
  /\ Len(testers[1]) = 2
  /\ Len(events[1]) = 2
  /\ simulator[1].events = events[1]
  /\ simulator[1].configuration = << >>
  /\ \A t \in 1..2 : Sent(1, t) = <<"start">> /\ testers[1][t].configuration # << >>

\* ------------------------------------------------------------------ C10
\* The six entries of tester t's evaluation context are those of context c.
Holds(h, t, c) ==
  \A key \in DOMAIN NoContext : contexts[testers[h][t].evaluator][key] = c[key]

\* C10: a step is relayed only after the subject has finished it; a relay call
\* serves the testers in add_test order, each one sent the event, overlaid and
\* run to quiescence before the next is sent the event; until its turn a
\* tester holds the context of the previous delivery (or none).
C10_SequentialRelay ==
  LET f == frame[1]
      lg == log[1]
      n == Len(testers[1])
      m == Len(lg)
  IN /\ f.pc # "unbuilt"
        => /\ n = Len(config.statechart_tests)
           /\ \A t \in 1..n : testers[1][t].statechart = config.statechart_tests[t][1]
     /\ (HasEntry(1, 0) /\ lg[m].op = "send")
        => IF lg[m].t > 1
           THEN lg[m - 1] = L("execute", lg[m].t - 1, lg[m].ev, lg[m].step)
           ELSE IF lg[m].ev = "step"
           THEN lg[m - 1] = L("sim.execute_once", 0, "step", lg[m].step)
           ELSE m = 1 \/ lg[m - 1].op \in {"stop", "assert"}
     /\ (HasEntry(1, 0) /\ lg[m].op = "overlay")
        => lg[m - 1] = L("send", lg[m].t, lg[m].ev, lg[m].step)
     /\ (HasEntry(1, 0) /\ lg[m].op \in {"execute", "raise"})
        => lg[m - 1] = L("overlay", lg[m].t, lg[m].ev, lg[m].step)
     /\ f.pc \in {"et_send", "et_overlay", "et_execute"}
        => LET served == IF f.pc = "et_execute" THEN f.ti ELSE f.ti - 1
               begun == Len(lg) - (3 * (f.ti - 1)
                                   + (IF f.pc = "et_send" THEN 0
                                      ELSE IF f.pc = "et_overlay" THEN 1 ELSE 2))
               sent == IF f.pc = "et_send" THEN f.ti - 1 ELSE f.ti
           IN /\ \A t \in 1..n :
                   testers[1][t].events =
                     IF t = f.ti /\ f.pc # "et_send" THEN <<f.event>> ELSE << >>
              /\ \A t \in 1..served : Holds(1, t, f.context)
              /\ \A t \in (sent + 1)..n :
                   \A b \in (begun + 1)..Len(lg) : lg[b].t # t
              /\ \A t \in (served + 1)..n :
                   /\ \A b \in (begun + 1)..Len(lg) : ~(lg[b].op = "overlay" /\ lg[b].t = t)
                   /\ IF Overlaid(1, t)
                      THEN Holds(1, t, create_context(1, simulator[1], LastOverlay(1, t).step))
                      ELSE DOMAIN contexts[testers[1][t].evaluator] = DOMAIN FreshContext

\* The step that entered s2 is being relayed: the first tester has been served
\* and holds its context, the second has not been sent it and still holds the
\* context of the step before, which entered s1.
C10_Witness ==
  /\ frame[1].pc = "et_send"
  /\ frame[1].ti = 2
  /\ frame[1].event = "step"
  /\ frame[1].step[1].entered_states = <<"s2">>
  /\ entered(contexts[testers[1][1].evaluator], "s2")
  /\ entered(contexts[testers[1][2].evaluator], "s1")
  /\ ~entered(contexts[testers[1][2].evaluator], "s2")
  /\ Len(Sent(1, 2)) + 1 = Len(Sent(1, 1))

\* ------------------------------------------------------------------ C11
\* Testers whose actions write: one to a variable of its own, one through the
\* context entry the harness relays.  The caller drives the harness with
\* execute_once() and stop().
WriterCharts == {"writes_own", "writes_subject"}

NextWriters ==
  \/ \E c \in WriterCharts : add_test(c, FALSE, None)
  \/ \E sc \in Scenarios : build_tester(1, sc)
  \/ StepOnce(1)

SpecWriters == Init /\ [][NextWriters]_vars

\* C11: the subject's evaluation context changes only when the subject engine
\* itself executes, and an evaluation context of a tester changes only when the
\* harness overlays that tester or that tester itself executes: what a tester
\* writes while it reacts to a relayed event stays in its own context.
C11_ContextIsolation ==
  [][ \A e \in DOMAIN contexts :
        contexts'[e] # contexts[e]
        => IF e = simulator[1].evaluator
           THEN frame[1].pc = "eo_simulate"
           ELSE /\ frame[1].pc \in {"et_overlay", "et_execute"}
                /\ e = testers[1][frame[1].ti].evaluator ]_vars

\* ------------------------------------------------------------------ C12
\* C12: an assertion failure a tester raises while it reacts to start, step or
\* stop ends the caller's call with that failure, carrying the subject's
\* statechart name, the tester's statechart name, the tester's payload, both
\* active configurations as they are at the failure, and the step relayed
\* (none for start and stop).
C12_EnrichedFailure ==
  LET f == frame[1]
      m == Len(log[1])
  IN (HasEntry(1, 0) /\ Newest(1, 0).op = "raise" /\ f.mark < m)
     => LET k == Newest(1, 0).t
        IN /\ f.pc \in {"idle", "failed"}
           /\ f.result.status = "raise"
           /\ f.result.error =
                Error(simulator[1].statechart, testers[1][k].statechart,
                      "assert False", testers[1][k].configuration,
                      simulator[1].configuration, Newest(1, 0).step)
           /\ Newest(1, 0).ev \in {"start", "stop"} => f.result.error.step = NoStep
           /\ Newest(1, 0).ev = "step"
                => /\ f.result.error.step # NoStep
                   /\ f.result.error.step[1] = Executed(1)[Len(Executed(1))]

\* The second tester failed on the step that processed goto s2: the caller has
\* the failure with both statechart names, both configurations and that step.
C12_Witness ==
  /\ frame[1].pc = "idle"
  /\ frame[1].result.status = "raise"
  /\ HasEntry(1, 0)
  /\ Newest(1, 0) = L("raise", 2, "step", frame[1].result.error.step)
  /\ frame[1].result.error.simulator = "simple"
  /\ frame[1].result.error.tester = "s1_stays"
  /\ frame[1].result.error.tester_configuration = <<"watching">>
  /\ frame[1].result.error.configuration = <<"s2">>
  /\ frame[1].result.error.step[1].transition[1].event = "goto s2"

\* ------------------------------------------------------------------ C13
\* A simulator of the subject statechart after n steps on a scenario, run on
\* its own: the engine and the heap holding its evaluation context.
RECURSIVE StepSubject(_, _, _)
StepSubject(eng, ctxs, n) ==
  IF n = 0 THEN [engine |-> eng, contexts |-> ctxs]
  ELSE LET o == execute_once(eng, ctxs)
       IN StepSubject(o.engine, o.contexts, n - 1)

SubjectAfter(scenario, n) ==
  StepSubject([Engine(SubjectChart, "Simulator", 1) EXCEPT !.events = scenario],
              <<FreshContext>>, n)

\* C13: when tester k raises during the relay of a step, the subject stays as
\* that step left it, and testers 1..k keep what they reached: the event
\* consumed, the step's context written, the configuration the failure
\* reports.  Nothing is delivered again: every step the subject executes is
\* the next one of its run, failures or not, and a tester is sent at most one
\* step event per executed step.
C13_NoRollbackNoRetry ==
  LET f == frame[1]
      lg == log[1]
      m == Len(lg)
  IN /\ (HasEntry(1, 0) /\ lg[m].op = "raise" /\ lg[m].ev = "step" /\ f.mark < m)
        => LET k == lg[m].t
               after == SubjectAfter(events[1], Len(Executed(1)))
           IN /\ simulator[1] = after.engine
              /\ contexts[simulator[1].evaluator] = after.contexts[1]
              /\ testers[1][k].configuration = f.result.error.tester_configuration
              /\ \A t \in 1..k :
                   /\ testers[1][t].events = << >>
                   /\ Holds(1, t, create_context(1, simulator[1], lg[m].step))
     /\ (HasEntry(1, 0) /\ lg[m].op = "sim.execute_once" /\ lg[m].ev = "step")
        => lg[m].step[1] = SubjectRun(events[1])[Len(Executed(1))]
     /\ (HasEntry(1, 0) /\ lg[m].op = "send" /\ lg[m].ev = "step")
        => /\ lg[m].step[1] = Executed(1)[Len(Executed(1))]
           /\ Len(SelectSeq(Sent(1, lg[m].t), LAMBDA e : e = "step")) <= Len(Executed(1))

\* The first of two testers failed on the step that processed goto s2; the
\* next execute_once() then made the subject's next step, into s3, and relayed
\* that step and no other.
C13_Witness ==
  /\ Returned(1, {"execute_once"})
  /\ Len(testers[1]) = 2
  /\ testers[1][1].statechart = "s1_stays"
  /\ Len(Executed(1)) = 3
  /\ frame[1].mark >= 1
  /\ log[1][frame[1].mark] = L("raise", 1, "step", <<Executed(1)[2]>>)
  /\ frame[1].result.value = <<SubjectRun(events[1])[3]>>
  /\ simulator[1].configuration = <<"s3">>
  /\ Sent(1, 2) = <<"start", "step", "step">>

\* ------------------------------------------------------------------ C14
\* The newest engine call of the current call is a failure inside stop(): a
\* tester raised on the stop event, or a finality check found it running.
StopFailed(h) ==
  /\ HasEntry(h, 0)
  /\ frame[h].mark < Len(log[h])
  /\ \/ Newest(h, 0).op = "raise" /\ Newest(h, 0).ev = "stop"
     \/ Newest(h, 0).op = "assert" /\ Newest(h, 0).ev = "running"

\* What stop() has done so far: the log after its last stop marker.
StopSegment(h) == Tail(FromLast(log[h], "stop"))

\* C14 as stated: a failure of tester i in stop() leaves the stop relay and the
\* finality check of the testers after it in place: each of them is sent stop
\* and checked by that stop().
C14_StopIndependence ==
  StopFailed(1)
  => \A t \in (Newest(1, 0).t + 1)..Len(testers[1]) :
       /\ \E b \in 1..Len(StopSegment(1)) :
            StopSegment(1)[b].op = "send" /\ StopSegment(1)[b].t = t
       /\ \E b \in 1..Len(StopSegment(1)) :
            StopSegment(1)[b].op = "assert" /\ StopSegment(1)[b].t = t

\* C14, amended: the first failure inside stop() ends stop() and reaches the
\* caller.  When the finality check of tester i fails, testers 1..i are the
\* only ones checked; when tester j raises on stop in pass p of the loop, only
\* testers 1..p-1 have been checked and testers after j are not sent stop in
\* that relay.
C14_StopFailFast ==
  StopFailed(1)
  => LET f == frame[1]
         n == Len(testers[1])
         seg == StopSegment(1)
         checks == SelectSeq(seg, LAMBDA e : e.op = "assert")
         last == Newest(1, 0)
     IN /\ f.pc = "idle"
        /\ f.result.status = "raise"
        /\ \A t \in 1..Len(checks) :
             checks[t] = L("assert", t,
                           IF t = Len(checks) /\ last.op = "assert"
                           THEN "running" ELSE "final", NoStep)
        /\ IF last.op = "assert"
           THEN /\ Len(checks) = last.t
                /\ Len(seg) = last.t * (3 * n + 1)
           ELSE /\ Len(checks) < n
                /\ Len(seg) = Len(checks) * (3 * n + 1) + 3 * last.t

\* stop() ended on the failed finality check of the first of two testers: the
\* second had been sent stop by the first pass, and was never checked.
C14_Witness ==
  /\ StopFailed(1)
  /\ Len(testers[1]) = 2
  /\ Newest(1, 0) = L("assert", 1, "running", NoStep)
  /\ frame[1].pc = "idle"
  /\ Sent(1, 2)[Len(Sent(1, 2))] = "stop"
  /\ \A b \in 1..Len(log[1]) : ~(log[1][b].op = "assert" /\ log[1][b].t = 2)

\* ------------------------------------------------------------------ C15
\* A subject that never runs out of steps (a -> b -> a -> ..., eventless),
\* watched by testers that stay quiet, and a caller that uses execute_once()
\* and execute(max_steps) with a positive bound.  Once inside a method the
\* harness runs it to its end: the steps of a call are weakly fair, the
\* caller's calls are not.
LoopChart == "loop"
LoopTesters == {"s3_entered", "s1_stays"}
LoopStepsArgs == {1, 2}
\* The caller makes no further call once the subject has executed this many steps.
MaxLoopSteps == 3

InitLoop ==
  /\ config = TesterConfiguration(LoopChart, NoEvaluator, None)
  /\ contexts = << >>
  /\ simulator = [h \in Harnesses |-> NoEngine]
  /\ testers = [h \in Harnesses |-> << >>]
  /\ events = [h \in Harnesses |-> << >>]
  /\ frame = [h \in Harnesses |-> NoFrame]
  /\ log = [h \in Harnesses |-> << >>]
  /\ stops = 0

\* The steps the harness takes inside a method.
Running(h) ==
  \/ et_send(h)
  \/ et_overlay(h)
  \/ et_execute(h)
  \/ init_send(h)
  \/ init_return(h)
  \/ eo_simulate(h)
  \/ eo_return(h)
  \/ ex_while(h)

NextLoop ==
  \/ \E c \in LoopTesters : add_test(c, FALSE, None)
  \/ \E sc \in Scenarios : build_tester(1, sc)
  \/ Len(Executed(1)) < MaxLoopSteps /\ call_execute_once(1)
  \/ \E m \in LoopStepsArgs : Len(Executed(1)) < MaxLoopSteps /\ call_execute(1, m)
  \/ Running(1)

SpecLoop == InitLoop /\ [][NextLoop]_vars /\ WF_vars(Running(1))

\* While execute(k) with k > 0 runs, the subject has been asked for at most k
\* steps; when it returns, it returns at most k steps, each relayed to the
\* end to every tester before the bound was looked at.
BoundKept(h) ==
  LET f == frame[h]
      k == f.max_steps
      n == Len(testers[h])
      asked == Len(SelectSeq(Since(h), LAMBDA e : e.op = "sim.execute_once"))
  IN (f.method = "execute" /\ k > 0)
     => /\ asked <= k
        /\ Len(f.steps) <= k
        /\ Returned(h, {"execute"})
             => /\ Len(f.result.value) <= k
                /\ Len(f.result.value) = asked
                /\ Len(Since(h)) = asked * (1 + 3 * n)

\* C15: execute(max_steps) with a positive bound always comes back to the
\* caller, after at most max_steps subject steps, also on a subject that never
\* reports 'no step'; the bound is looked at between steps only.
C15_BoundedTermination ==
  /\ [](BoundKept(1))
  /\ (frame[1].method = "execute" /\ frame[1].pc # "idle") ~> (frame[1].pc = "idle")

\* execute(2) has returned two steps of the endless subject, each relayed to
\* two testers, and the subject is not exhausted.
C15_Witness ==
  /\ Returned(1, {"execute"})
  /\ frame[1].max_steps = 2
  /\ simulator[1].statechart = "loop"
  /\ Len(frame[1].result.value) = 2
  /\ Len(testers[1]) = 2
  /\ Exhausted(1) = 0
  /\ execute_once(simulator[1], contexts).step # NoStep

\* ------------------------------------------------------------------ C16
\* What the subject answered to the calls of execute_once made since the
\* caller's current call began, and the events sent to tester t since then.
Asked(h) == SelectSeq(Since(h), LAMBDA e : e.op = "sim.execute_once")
SentSince(h, t, ev) ==
  Len(SelectSeq(Since(h), LAMBDA e : e.op = "send" /\ e.t = t /\ e.ev = ev))
StopsSince(h) == Len(SelectSeq(Since(h), LAMBDA e : e.op = "stop"))
FailedSince(h) ==
  \E n \in 1..Len(Since(h)) :
    \/ Since(h)[n].op = "raise"
    \/ Since(h)[n].op = "assert" /\ Since(h)[n].ev = "running"

\* C16: a call of execute_once() that has ended asked the subject for exactly
\* one step; a returned call returns what the subject answered; a step is
\* relayed once as `step` (with that step) to each tester and stop() is not
\* called; 'no step' calls stop(), relays no `step` and is returned.  A
\* returned execute() returns the subject's steps in order, and each tester
\* has been sent as many `step` events as steps were returned.
C16_OneStepPerCall ==
  LET f == frame[1]
      n == Len(testers[1])
      asked == Asked(1)
  IN /\ (f.pc = "idle" /\ f.method = "execute_once")
          => /\ Len(asked) = 1
             /\ Since(1)[1] = asked[1]
             /\ asked[1].ev = "step"
                  => /\ StopsSince(1) = 0
                     /\ \A t \in 1..n : SentSince(1, t, "stop") = 0
                     /\ \A t \in 1..n : SentSince(1, t, "step") <= 1
                     /\ \A m \in 1..Len(Since(1)) :
                          Since(1)[m].op = "send" => Since(1)[m].step = asked[1].step
             /\ asked[1].ev = None
                  => /\ StopsSince(1) = 1
                     /\ \A t \in 1..n : SentSince(1, t, "step") = 0
             /\ f.result.status = "return"
                  => /\ f.result.value = asked[1].step
                     /\ asked[1].ev = "step"
                          => \A t \in 1..n : SentSince(1, t, "step") = 1
     /\ Returned(1, {"execute"})
          => /\ Len(asked) >= 1
             /\ f.result.value =
                  [m \in 1..Len(f.result.value) |-> asked[m].step[1]]
             /\ \A m \in 1..Len(asked) :
                  (asked[m].ev = "step") <=> (m <= Len(f.result.value))
             /\ Len(asked) <= Len(f.result.value) + 1
             /\ ~FailedSince(1)
             /\ \A t \in 1..n : SentSince(1, t, "step") = Len(f.result.value)
     /\ NoFailure(1)
          => \A t \in 1..n :
               f.pc \in {"idle", "eo_return", "ex_while", "eo_simulate"}
                 => Len(SelectSeq(Sent(1, t), LAMBDA ev : ev = "step")) = Len(Executed(1))

\* One execute_once() has returned a step relayed to two testers, a later one
\* has returned 'no step' after calling stop().
C16_Witness ==
  /\ Returned(1, {"execute_once"})
  /\ frame[1].result.value = NoStep
  /\ StopsSince(1) = 1
  /\ Len(testers[1]) = 2
  /\ Len(Executed(1)) >= 1
  /\ frame[1].mark > 1 + 2 * 3

\* ------------------------------------------------------------------ C17
\* The evaluation context in which tester ti is about to react (line 68).
Reacting(h) == frame[h].pc = "et_execute"
ReactingContext(h) == contexts[testers[h][frame[h].ti].evaluator]

\* C17: when a tester reacts to a relay, active(s) is true iff s is in the
\* configuration the subject has after the steps executed so far: after step k
\* for the relay of step k (a state step k exited is inactive, one it entered
\* is active), before any step for start, after the last step for stop.  The
\* tester that requires s1 after `goto s2` fails, and the failure reports the
\* configuration s2; while it watches it never gets through such a step.
C17_ActiveIsLive ==
  LET f == frame[1]
      k == Len(Executed(1))
      after == SubjectAfter(events[1], k).engine.configuration
  IN /\ Reacting(1)
          => /\ \A s \in StateNames :
                  active(ReactingContext(1), s) <=> s \in Range(after)
             /\ f.event = "start" => k = 0 /\ after = << >>
             /\ f.event = "step"
                  => /\ k >= 1
                     /\ f.step = <<Executed(1)[k]>>
                     /\ \A s \in Range(f.step[1].entered_states) :
                          active(ReactingContext(1), s)
                     /\ \A s \in Range(f.step[1].exited_states) :
                          ~active(ReactingContext(1), s)
             /\ f.event = "stop" => after = simulator[1].configuration
     /\ (HasEntry(1, 0) /\ Newest(1, 0).op = "raise" /\ Newest(1, 0).ev = "step"
           /\ f.mark < Len(log[1])
           /\ testers[1][Newest(1, 0).t].statechart = "s1_stays")
          => /\ Newest(1, 0).step[1].transition = <<[event |-> "goto s2"]>>
             /\ f.result.error.configuration = <<"s2">>
     /\ (HasEntry(1, 0) /\ Newest(1, 0).op = "execute" /\ Newest(1, 0).ev = "step"
           /\ testers[1][Newest(1, 0).t].statechart = "s1_stays"
           /\ testers[1][Newest(1, 0).t].configuration = <<"watching">>)
          => Newest(1, 0).step[1].transition # <<[event |-> "goto s2"]>>

\* The tester that requires s1 to stay active is about to react to the step
\* that processed goto s2: s1 has been exited and s2 is the configuration.
C17_Witness ==
  /\ Reacting(1)
  /\ frame[1].event = "step"
  /\ testers[1][frame[1].ti].statechart = "s1_stays"
  /\ processed(ReactingContext(1), "goto s2")
  /\ exited(ReactingContext(1), "s1")
  /\ ~active(ReactingContext(1), "s1")
  /\ active(ReactingContext(1), "s2")

\* ------------------------------------------------------------------ C18
\* A caller that uses execute(max_steps) only, with the default, with zero,
\* with other negative bounds and, for contrast, with a bound of one.
UnboundedArgs == {-3, -2, -1, 0}
UnboundedTesters == {"s3_entered", "s1_stays"}

NextUnbounded ==
  \/ \E c \in UnboundedTesters : add_test(c, FALSE, None)
  \/ \E sc \in Scenarios : build_tester(1, sc)
  \/ \E m \in UnboundedArgs \cup {1} : call_execute(1, m)
  \/ Running(1)
  \/ stop_begin(1)
  \/ stop_assert(1)

SpecUnbounded == Init /\ [][NextUnbounded]_vars

\* C18: execute(max_steps) with max_steps <= 0 (-1, 0 or any other negative
\* value) ends only with a failure or with the subject out of steps: a
\* returned call has asked the subject until it answered 'no step', returns
\* every step that was pending, and has called stop() once.  A returned call
\* that did not exhaust the subject had a positive bound and returns exactly
\* that many steps.
C18_NonPositiveIsUnbounded ==
  LET f == frame[1]
      asked == Asked(1)
      exhausted == asked # << >> /\ asked[Len(asked)].ev = None
  IN /\ (f.method = "execute" /\ f.max_steps <= 0 /\ f.pc = "idle")
          => \/ f.result.status = "raise" /\ FailedSince(1)
             \/ /\ f.result.status = "return"
                /\ exhausted
                /\ StopsSince(1) = 1
                /\ Len(asked) = Len(f.result.value) + 1
                /\ StepsBefore(1) + Len(f.result.value) = Len(SubjectRun(events[1]))
                /\ execute_once(simulator[1], contexts).step = NoStep
     /\ (Returned(1, {"execute"}) /\ ~exhausted)
          => /\ f.max_steps > 0
             /\ Len(f.result.value) = f.max_steps
             /\ StopsSince(1) = 0

\* After execute(1) returned the first step, execute(-3) has returned the two
\* steps that were left, after calling stop().
C18_Witness ==
  /\ Returned(1, {"execute"})
  /\ frame[1].max_steps = -3
  /\ StepsBefore(1) = 1
  /\ Len(frame[1].result.value) = 2
  /\ StopsSince(1) = 1
  /\ Len(testers[1]) >= 1

\* ------------------------------------------------------------------ C19
\* The subject of harness h had exactly k steps left when the caller's current
\* call began.
StepsLeft(h, k) == StepsBefore(h) + k = Len(SubjectRun(events[h]))
AssertsSince(h) == Len(SelectSeq(Since(h), LAMBDA e : e.op = "assert"))

\* C19: with exactly k > 0 steps left, a returned execute(max_steps=k) returns
\* those k steps and has asked the subject k times, not k + 1: it has called
\* no stop(), sent no stop event and checked no finality, although the
\* subject has no step left.  The call made after that, execute_once() or
\* execute(), asks the subject once, is answered 'no step', calls stop(), and
\* returns no step (an empty list) after a finality check of every tester.
C19_StopOnNextCall ==
  LET f == frame[1]
      n == Len(testers[1])
      k == f.max_steps
  IN /\ (Returned(1, {"execute"}) /\ k > 0 /\ StepsLeft(1, k))
          => /\ Len(f.result.value) = k
             /\ Len(Asked(1)) = k
             /\ \A m \in 1..k : Asked(1)[m].ev = "step"
             /\ StopsSince(1) = 0
             /\ AssertsSince(1) = 0
             /\ \A t \in 1..n : SentSince(1, t, "stop") = 0
             /\ Exhausted(1) = 0
             /\ execute_once(simulator[1], contexts).step = NoStep
     /\ (f.pc = "idle" /\ f.method \in {"execute_once", "execute"} /\ StepsLeft(1, 0))
          => /\ Len(Asked(1)) = 1
             /\ Asked(1)[1].ev = None
             /\ StopsSince(1) = 1
             /\ \A t \in 1..n : SentSince(1, t, "step") = 0
             /\ n >= 1 => SentSince(1, 1, "stop") >= 1
             /\ f.result.status = "return"
                  => /\ f.result.value = << >>
                     /\ AssertsSince(1) = n
             /\ f.result.status = "raise" => FailedSince(1)

\* After one execute_once(), execute(2) has returned the two steps that were
\* left, with two testers and no stop; the subject has nothing more to do.
C19_Witness ==
  /\ Returned(1, {"execute"})
  /\ frame[1].max_steps = 2
  /\ StepsBefore(1) = 1
  /\ StepsLeft(1, 2)
  /\ Len(frame[1].result.value) = 2
  /\ Len(testers[1]) = 2
  /\ stops = 0
  /\ execute_once(simulator[1], contexts).step = NoStep

\* ------------------------------------------------------------------ C20
\* The start relay of the constructor is under way.
Starting(h) ==
  /\ frame[h].method = "build_tester"
  /\ frame[h].pc \in {"et_send", "et_overlay", "et_execute"}

\* C20: while the start relay of the constructor runs, and when it has raised
\* and construction has failed, no scenario event has been sent to the
\* subject and the subject has made no step: its queue and its configuration
\* are empty; the failure the caller gets is the one of the start relay.
C20_StartFailsBeforeScenario ==
  LET f == frame[1]
      untouched ==
        /\ simulator[1].events = << >>
        /\ simulator[1].configuration = << >>
        /\ Entries(1, "sim.send") = << >>
        /\ Entries(1, "sim.execute_once") = << >>
  IN /\ Starting(1) => untouched /\ f.event = "start"
     /\ f.pc = "failed"
          => /\ untouched
             /\ f.method = "build_tester"
             /\ f.result.status = "raise"
             /\ Newest(1, 0).op = "raise"
             /\ Newest(1, 0).ev = "start"
             /\ f.result.error.tester = testers[1][Newest(1, 0).t].statechart
             /\ f.result.error.step = NoStep
             /\ \A n \in 1..Len(log[1]) : log[1][n].ev = "start"

\* Construction with a scenario of two events has failed on the start relay
\* of the second tester, after the first tester took start.
C20_Witness ==
  /\ frame[1].pc = "failed"
  /\ Len(events[1]) = 2
  /\ Len(testers[1]) = 2
  /\ testers[1][2].statechart = "fail_start"
  /\ Newest(1, 0) = L("raise", 2, "start", NoStep)
  /\ simulator[1].events = << >>

====
